---------------------------- MODULE Spec2Model ----------------------------
(***************************************************************************)
(* A model of rsc-boundary (src/main.go): the import parser, the module    *)
(* path resolver, the directive detector, the propagation of marked names  *)
(* and the usage matcher.  Strings are sequences of one-character strings, *)
(* so that trimming, prefix tests and the regular expressions of the code  *)
(* are computed character by character.                                    *)
(***************************************************************************)
EXTENDS Integers, Sequences, FiniteSets, TLC

VARIABLES
    fhdLines,        \* fileHasDirective: the lines bufio.Scanner yields
    fhdPos,          \* fileHasDirective: number of lines consumed
    inBlockComment,  \* fileHasDirective: the inBlockComment flag
    fhdRet,          \* fileHasDirective: "none" while scanning, then "true"/"false"
    piLines,         \* parseImports: the lines of the file
    piPos,           \* parseImports: number of lines consumed
    currentImport,   \* parseImports: the statement being accumulated
    imports,         \* parseImports: the import records so far
    piStart,         \* the line on which currentImport began (0: none)
    piCalls,         \* the calls of parseImportStatement made so far
    piRet,           \* parseImports: TRUE once it has returned
    exFs,            \* expandPath: the filesystem, [files, dirs]
    exBase,          \* expandPath: basePath
    exPc,            \* expandPath: "asis", "ext", "stat", "index", "done"
    exIdx,           \* expandPath: index into SearchExtensions
    paths,           \* expandPath: the candidates collected
    rsFs,            \* resolver: the filesystem
    rsSpecifier,     \* resolver: importPath
    rsPc,            \* resolver: "load", "range", "resolve", "done"
    rsConfig,        \* parseAliases: the decoded TSConfig
    rsLeft,          \* parseAliases: keys of Paths the range has not visited
    aliases,         \* the alias table under construction, then complete
    rsIdx,           \* resolveImportPath: index into aliases
    candidates,      \* resolveImportPath: candidates
    scFs,            \* scanFile: the filesystem
    scLines,         \* scanFile: lines, the content of filePath split at "\n"
    scPc,            \* scanFile: "open", "load", "imports", "report", "done"
    scCalls,         \* the statements parseImports handed to parseImportStatement
    scImports,       \* scanFile: imports
    scAliases,       \* scanFile: aliases
    scIdx,           \* scanFile: index of the import being resolved
    clientComponents,\* scanFile: clientComponents
    scLog,           \* per import resolved: candidates, those checked, the verdict
    scLine,          \* scanFile: index of the line being matched
    output,          \* the lines printed to standard output
    scErr,           \* scanFile returned an error
    wkFs,            \* scanPath: [root, lstatFails, unreadable, denied]
    wkStack,         \* filepath.Walk: the directories entered, names still to visit
    wkPc,            \* "walk" while Walk runs, "main" once it returned, "exit"
    wkScanned,       \* the paths scanFile returned nil for, in order
    wkWarned,        \* the paths scanFile returned an error for, in order
    wkErr,           \* the error scanPath returns: <<>> (nil) or <<path>>
    wkExit           \* the exit status of the process (-1 while running)

fhdVars == <<fhdLines, fhdPos, inBlockComment, fhdRet>>
piVars == <<piLines, piPos, currentImport, imports, piStart, piCalls, piRet>>

exVars == <<exFs, exBase, exPc, exIdx, paths>>

rsVars == <<rsFs, rsSpecifier, rsPc, rsConfig, rsLeft, aliases, rsIdx, candidates>>

scVars ==
    <<scFs, scLines, scPc, scCalls, scImports, scAliases, scIdx,
      clientComponents, scLog, scLine, output, scErr>>

wkVars == <<wkFs, wkStack, wkPc, wkScanned, wkWarned, wkErr, wkExit>>

vars == <<fhdVars, piVars, exVars, rsVars, scVars, wkVars>>

FhdIdle ==
    fhdLines = <<>> /\ fhdPos = 0 /\ inBlockComment = FALSE /\ fhdRet = "none"

PiIdle ==
    /\ piLines = <<>> /\ piPos = 0 /\ currentImport = <<>> /\ imports = <<>>
    /\ piStart = 0 /\ piCalls = <<>> /\ piRet = FALSE

NoFs == [files |-> {}, dirs |-> {}]

NoConfig == [valid |-> FALSE, BaseURL |-> <<>>, Paths |-> <<>>]

RsIdle ==
    /\ rsFs = NoFs /\ rsSpecifier = <<>> /\ rsPc = "done" /\ rsConfig = NoConfig
    /\ rsLeft = {} /\ aliases = <<>> /\ rsIdx = 0 /\ candidates = <<>>

ExIdle ==
    exFs = NoFs /\ exBase = <<>> /\ exPc = "done" /\ exIdx = 0 /\ paths = <<>>

ScIdle ==
    /\ scFs = NoFs /\ scLines = <<>> /\ scPc = "done" /\ scCalls = <<>>
    /\ scImports = <<>> /\ scAliases = <<>> /\ scIdx = 0
    /\ clientComponents = {} /\ scLog = <<>> /\ scLine = 0 /\ output = <<>>
    /\ scErr = FALSE

WkIdle ==
    /\ wkFs = [root |-> <<>>, lstatFails |-> {}, unreadable |-> {}, denied |-> {}]
    /\ wkStack = <<>> /\ wkPc = "exit" /\ wkScanned = <<>> /\ wkWarned = <<>>
    /\ wkErr = <<>> /\ wkExit = 0

FhdOnly == UNCHANGED <<piVars, exVars, rsVars, scVars, wkVars>>
PiOnly == UNCHANGED <<fhdVars, exVars, rsVars, scVars, wkVars>>
ExOnly == UNCHANGED <<fhdVars, piVars, rsVars, scVars, wkVars>>
RsOnly == UNCHANGED <<fhdVars, piVars, exVars, scVars, wkVars>>
ScOnly == UNCHANGED <<fhdVars, piVars, exVars, rsVars, wkVars>>
WkOnly == UNCHANGED <<fhdVars, piVars, exVars, rsVars, scVars>>

-----------------------------------------------------------------------------
(* Characters and the string functions of package strings                  *)

DQ == "\""
SQ == "'"

IsSpace(c) == c \in {" ", "\t", "\r", "\n"}

\* the class \w of Go's regexp (ASCII only)
WordChars ==
    {"a","b","c","d","e","f","g","h","i","j","k","l","m","n","o","p","q","r",
     "s","t","u","v","w","x","y","z","A","B","C","D","E","F","G","H","I","J",
     "K","L","M","N","O","P","Q","R","S","T","U","V","W","X","Y","Z","0","1",
     "2","3","4","5","6","7","8","9","_"}

IsWord(c) == c \in WordChars

SetMin(S) == CHOOSE m \in S : \A k \in S : m <= k
SetMax(S) == CHOOSE m \in S : \A k \in S : m >= k

TrimSpace(s) ==
    IF \A i \in 1..Len(s) : IsSpace(s[i]) THEN <<>>
    ELSE LET first == CHOOSE i \in 1..Len(s) :
                         ~IsSpace(s[i]) /\ \A k \in 1..(i - 1) : IsSpace(s[k])
             last == CHOOSE i \in 1..Len(s) :
                        ~IsSpace(s[i]) /\ \A k \in (i + 1)..Len(s) : IsSpace(s[k])
         IN  SubSeq(s, first, last)

HasPrefix(s, p) == Len(s) >= Len(p) /\ SubSeq(s, 1, Len(p)) = p

HasSuffix(s, p) == Len(s) >= Len(p) /\ SubSeq(s, Len(s) - Len(p) + 1, Len(s)) = p

TrimPrefix(s, p) == IF HasPrefix(s, p) THEN SubSeq(s, Len(p) + 1, Len(s)) ELSE s

TrimSuffix(s, p) == IF HasSuffix(s, p) THEN SubSeq(s, 1, Len(s) - Len(p)) ELSE s

\* the positions at which sub occurs in s
Occurrences(s, sub) ==
    {i \in 1..(Len(s) - Len(sub) + 1) : SubSeq(s, i, i + Len(sub) - 1) = sub}

Contains(s, sub) == Occurrences(s, sub) # {}

-----------------------------------------------------------------------------
(* Configuration                                                           *)

MaxReadBytes == 4096

Directives ==
    << <<SQ,"u","s","e"," ","c","l","i","e","n","t",SQ>>,
       <<DQ,"u","s","e"," ","c","l","i","e","n","t",DQ>> >>

SearchExtensions ==
    << <<".","t","s","x">>, <<".","t","s">>, <<".","j","s","x">>, <<".","j","s">> >>

-----------------------------------------------------------------------------
(* fileHasDirective                                                        *)

\* The offset of line k in a file whose lines are joined by "\n".
RECURSIVE LineOffset(_, _)
LineOffset(lines, k) ==
    IF k = 1 THEN 0 ELSE LineOffset(lines, k - 1) + Len(lines[k - 1]) + 1

\* io.LimitReader under bufio.Scanner: the lines that start within the first
\* `limit` bytes, the last of them cut at the limit; a final empty line is no
\* token.
LimitedLines(lines, limit) ==
    LET within == {k \in 1..Len(lines) :
                      /\ LineOffset(lines, k) < limit
                      /\ ~(k = Len(lines) /\ lines[k] = <<>>)}
        cut(k) == LET room == limit - LineOffset(lines, k)
                  IN  IF Len(lines[k]) > room THEN SubSeq(lines[k], 1, room)
                      ELSE lines[k]
    IN  [k \in 1..Cardinality(within) |-> cut(k)]

IsDirective(line) ==
    \E d \in 1..Len(Directives) : TrimSuffix(line, <<";">>) = Directives[d]

\* One iteration of the scanner loop on a trimmed line: what the loop does
\* next and the new value of inBlockComment.

\* a faulty variant of StepBreak: a line of code does not end the scan
StepContinue(line, inBlock) ==
    [do |-> "continue", inBlock |-> inBlock]

\* the line is neither blank, nor a directive, nor a comment: break
StepBreak(line, inBlock) ==
    [do |-> "break", inBlock |-> inBlock]

DirectiveStep(line, inBlock) ==
    IF line = <<>> THEN [do |-> "continue", inBlock |-> inBlock]
    ELSE IF inBlock
         THEN [do |-> "continue",
               inBlock |-> ~Contains(line, <<"*","/">>)]
    ELSE IF IsDirective(line) THEN [do |-> "return", inBlock |-> inBlock]
    ELSE IF HasPrefix(line, <<"/","/">>)
         THEN [do |-> "continue", inBlock |-> inBlock]
    ELSE IF HasPrefix(line, <<"/","*">>)
         THEN [do |-> "continue",
               inBlock |-> ~Contains(line, <<"*","/">>)]
    ELSE StepBreak(line, inBlock)

\* fileHasDirective as a function of the lines the scanner yields.
RECURSIVE DirectiveFrom(_, _, _)
DirectiveFrom(lines, k, inBlock) ==
    IF k > Len(lines) THEN FALSE
    ELSE LET st == DirectiveStep(TrimSpace(lines[k]), inBlock)
         IN  CASE st.do = "return" -> TRUE
               [] st.do = "break" -> FALSE
               [] OTHER -> DirectiveFrom(lines, k + 1, st.inBlock)

FileHasDirectiveLines(lines) ==
    DirectiveFrom(LimitedLines(lines, MaxReadBytes), 1, FALSE)

-----------------------------------------------------------------------------
(* Inputs of the directive detector                                        *)

MaxFhdLines == 3

Pad == [i \in 1..(MaxReadBytes - 6) |-> " "]

DirectiveSamples ==
    { <<>>,
      <<DQ,"u","s","e"," ","c","l","i","e","n","t",DQ>>,
      <<" ",SQ,"u","s","e"," ","c","l","i","e","n","t",SQ,";">>,
      <<"/","/"," ","c">>,
      <<"/","*"," ","c">>,
      <<"c"," ","*","/">>,
      <<"/","*"," ","c"," ","*","/"," ","x","(",")">>,
      <<"c"," ","*","/"," ","x","(",")">>,
      <<"x","(",")",";"," ","/","/"," ","c">>,
      Pad }

SeqsUpTo(S, n) == UNION {[1..k -> S] : k \in 0..n}

-----------------------------------------------------------------------------
(* The scanner loop of fileHasDirective, one line per step                 *)

FhdInit ==
    /\ \E content \in SeqsUpTo(DirectiveSamples, MaxFhdLines) :
          fhdLines = LimitedLines(content, MaxReadBytes)
    /\ fhdPos = 0
    /\ inBlockComment = FALSE
    /\ fhdRet = "none"
    /\ PiIdle /\ ExIdle /\ RsIdle /\ ScIdle /\ WkIdle

FhdCurrent == DirectiveStep(TrimSpace(fhdLines[fhdPos + 1]), inBlockComment)

FhdScanning == fhdRet = "none" /\ fhdPos < Len(fhdLines)

FhdContinue ==
    /\ FhdScanning
    /\ FhdCurrent.do = "continue"
    /\ fhdPos' = fhdPos + 1
    /\ inBlockComment' = FhdCurrent.inBlock
    /\ UNCHANGED <<fhdLines, fhdRet>>
    /\ FhdOnly

FhdReturnTrue ==
    /\ FhdScanning
    /\ FhdCurrent.do = "return"
    /\ fhdPos' = fhdPos + 1
    /\ fhdRet' = "true"
    /\ UNCHANGED <<fhdLines, inBlockComment>>
    /\ FhdOnly

FhdBreak ==
    /\ FhdScanning
    /\ FhdCurrent.do = "break"
    /\ fhdPos' = fhdPos + 1
    /\ fhdRet' = "false"
    /\ UNCHANGED <<fhdLines, inBlockComment>>
    /\ FhdOnly

FhdEnd ==
    /\ fhdRet = "none"
    /\ fhdPos = Len(fhdLines)
    /\ fhdRet' = "false"
    /\ UNCHANGED <<fhdLines, fhdPos, inBlockComment>>
    /\ FhdOnly

FhdNext == FhdContinue \/ FhdReturnTrue \/ FhdBreak \/ FhdEnd

SpecDirective == FhdInit /\ [][FhdNext]_vars

-----------------------------------------------------------------------------
(* The regular expressions of the import parser                            *)

kImport == <<"i","m","p","o","r","t">>
kFrom == <<"f","r","o","m">>
kType == <<"t","y","p","e">>
kAs == <<"a","s">>

Quotes == {SQ, DQ}

\* the class [\w$]
IsIdent(c) == IsWord(c) \/ c = "$"

MatchAt(s, i, lit) ==
    i >= 1 /\ i + Len(lit) - 1 <= Len(s) /\ SubSeq(s, i, i + Len(lit) - 1) = lit

\* the position after a greedy \s* that starts at i
RECURSIVE SkipSpaces(_, _)
SkipSpaces(s, i) ==
    IF i > Len(s) THEN Len(s) + 1
    ELSE IF IsSpace(s[i]) THEN SkipSpaces(s, i + 1)
    ELSE i

\* the position after a greedy [\w$]* that starts at i
RECURSIVE SkipIdent(_, _)
SkipIdent(s, i) ==
    IF i > Len(s) THEN Len(s) + 1
    ELSE IF IsIdent(s[i]) THEN SkipIdent(s, i + 1)
    ELSE i

RECURSIVE Split(_, _)
Split(s, c) ==
    LET pos == {i \in 1..Len(s) : s[i] = c}
    IN  IF pos = {} THEN <<s>>
        ELSE <<SubSeq(s, 1, SetMin(pos) - 1)>>
             \o Split(SubSeq(s, SetMin(pos) + 1, Len(s)), c)

\* ^\s*import\s+type\s
IsTypeOnlyImport(stmt) ==
    LET a == SkipSpaces(stmt, 1)
        c == SkipSpaces(stmt, a + 6)
    IN  /\ MatchAt(stmt, a, kImport)
        /\ c > a + 6
        /\ MatchAt(stmt, c, kType)
        /\ c + 4 <= Len(stmt)
        /\ IsSpace(stmt[c + 4])

\* \s+['"]([^'"]+)['"] at position p: the set holding the group, or {}
QuotedAt(s, p) ==
    LET q == SkipSpaces(s, p)
        close == {j \in (q + 1)..Len(s) : s[j] \in Quotes}
    IN  IF q > p /\ q <= Len(s) /\ s[q] \in Quotes /\ close # {}
           /\ SetMin(close) > q + 1
        THEN {SubSeq(s, q + 1, SetMin(close) - 1)}
        ELSE {}

\* from\s+['"]([^'"]+)['"]|import\s+['"]([^'"]+)['"] : the leftmost match
SourceAt(stmt, i) ==
    IF MatchAt(stmt, i, kFrom) /\ QuotedAt(stmt, i + 4) # {}
    THEN QuotedAt(stmt, i + 4)
    ELSE IF MatchAt(stmt, i, kImport) THEN QuotedAt(stmt, i + 6)
    ELSE {}

SourceMatch(stmt) ==
    LET hits == {i \in 1..Len(stmt) : SourceAt(stmt, i) # {}}
    IN  IF hits = {} THEN {} ELSE SourceAt(stmt, SetMin(hits))

\* \s+from\s+ matches at q
FromClauseAt(s, q) ==
    LET r == SkipSpaces(s, q)
    IN  /\ q <= Len(s)
        /\ IsSpace(s[q])
        /\ MatchAt(s, r, kFrom)
        /\ SkipSpaces(s, r + 4) > r + 4

\* ^\s*import\s+(.*?)\s+from\s+ : the set holding the group, or {}
ClauseMatch(stmt) ==
    LET a == SkipSpaces(stmt, 1)
        c == SkipSpaces(stmt, a + 6)
        ends(start) == {q \in start..Len(stmt) : FromClauseAt(stmt, q)}
        starts == {st \in (a + 7)..c : ends(st) # {}}
    IN  IF MatchAt(stmt, a, kImport) /\ c > a + 6 /\ starts # {}
        THEN {SubSeq(stmt, SetMax(starts), SetMin(ends(SetMax(starts))) - 1)}
        ELSE {}

\* ^type\s+ replaced by nothing
StripTypePrefix(text) ==
    IF MatchAt(text, 1, kType) /\ SkipSpaces(text, 5) > 5
    THEN SubSeq(text, SkipSpaces(text, 5), Len(text))
    ELSE text

\* ^([\w$]+)\s*,\s*\{(.*)\}$ : the set holding <<group 1, group 2>>, or {}
DefaultAndNamedMatch(text) ==
    LET e == SkipIdent(text, 1)
        comma == SkipSpaces(text, e)
        brace == SkipSpaces(text, comma + 1)
    IN  IF /\ e > 1
           /\ comma <= Len(text) /\ text[comma] = ","
           /\ brace < Len(text) /\ text[brace] = "{"
           /\ text[Len(text)] = "}"
        THEN {<<SubSeq(text, 1, e - 1), SubSeq(text, brace + 1, Len(text) - 1)>>}
        ELSE {}

\* ^\{(.*)\}$ : the set holding the group, or {}
NamedOnlyMatch(text) ==
    IF Len(text) >= 2 /\ text[1] = "{" /\ text[Len(text)] = "}"
    THEN {SubSeq(text, 2, Len(text) - 1)}
    ELSE {}

\* ^\*\s+as\s+[\w$]+$
IsNamespaceClause(text) ==
    LET a == SkipSpaces(text, 2)
        n == SkipSpaces(text, a + 2)
    IN  /\ MatchAt(text, 1, <<"*">>)
        /\ a > 2
        /\ MatchAt(text, a, kAs)
        /\ n > a + 2
        /\ n <= Len(text)
        /\ SkipIdent(text, n) = Len(text) + 1

\* ^.*\s+as\s+([\w$]+)$ : the set holding the group, or {}
AliasMatch(entry) ==
    LET notIdent == {j \in 1..Len(entry) : ~IsIdent(entry[j])}
        g == IF notIdent = {} THEN 1 ELSE SetMax(notIdent) + 1
        notSpace == {j \in 1..(g - 1) : ~IsSpace(entry[j])}
        k == IF notSpace = {} THEN 0 ELSE SetMax(notSpace)
    IN  IF /\ g <= Len(entry)
           /\ k < g - 1
           /\ k >= 3
           /\ SubSeq(entry, k - 1, k) = kAs
           /\ IsSpace(entry[k - 2])
        THEN {SubSeq(entry, g, Len(entry))}
        ELSE {}

-----------------------------------------------------------------------------
(* parseNamedSpecifiers and parseImportStatement                           *)

\* a faulty variant of NamedEntry: the name before `as` is kept
KeepOriginalName(entry) == <<SubSeq(entry, 1, SkipIdent(entry, 1) - 1)>>

\* the names one trimmed, kept entry of a brace body binds
NamedEntry(entry) ==
    IF AliasMatch(entry) # {} THEN <<CHOOSE n \in AliasMatch(entry) : TRUE>>
    ELSE <<entry>>

RECURSIVE NamedFrom(_, _)
NamedFrom(chunks, k) ==
    IF k > Len(chunks) THEN <<>>
    ELSE LET trimmed == TrimSpace(chunks[k])
         IN  IF trimmed = <<>> \/ HasPrefix(trimmed, kType \o <<" ">>)
             THEN NamedFrom(chunks, k + 1)
             ELSE NamedEntry(trimmed) \o NamedFrom(chunks, k + 1)

parseNamedSpecifiers(body) == NamedFrom(Split(body, ","), 1)

NoImport == [ok |-> FALSE, Source |-> <<>>, Specifiers |-> <<>>]

ImportInfo(source, specifiers) ==
    [ok |-> TRUE, Source |-> source, Specifiers |-> specifiers]

\* the specifiers of a statement that has a from clause
ClauseSpecifiers(clause) ==
    LET clauseText == TrimSpace(StripTypePrefix(TrimSpace(clause)))
    IN  IF clauseText = <<>> THEN <<>>
        ELSE IF DefaultAndNamedMatch(clauseText) # {}
        THEN LET m == CHOOSE x \in DefaultAndNamedMatch(clauseText) : TRUE
             IN  <<TrimSpace(m[1])>> \o parseNamedSpecifiers(m[2])
        ELSE IF NamedOnlyMatch(clauseText) # {}
        THEN parseNamedSpecifiers(CHOOSE x \in NamedOnlyMatch(clauseText) : TRUE)
        ELSE IF IsNamespaceClause(clauseText) THEN <<>>
        ELSE <<clauseText>>

parseImportStatement(stmt) ==
    IF IsTypeOnlyImport(stmt) THEN NoImport
    ELSE IF SourceMatch(stmt) = {} THEN NoImport
    ELSE LET source == CHOOSE x \in SourceMatch(stmt) : TRUE
         IN  IF ClauseMatch(stmt) = {} THEN ImportInfo(source, <<>>)
             ELSE ImportInfo(source,
                    ClauseSpecifiers(CHOOSE x \in ClauseMatch(stmt) : TRUE))

-----------------------------------------------------------------------------
(* parseImports: one line of the file per step                             *)

\* a faulty variant of FoldLine: a line that begins with `import ` starts a
\* statement even while another is being accumulated
FoldRestart(current, trimmed) ==
    IF HasPrefix(trimmed, kImport \o <<" ">>) THEN trimmed
    ELSE IF current # <<>> THEN current \o <<" ">> \o trimmed
    ELSE current

\* the buffer after a line has been folded into it
FoldLine(current, trimmed) ==
    IF current # <<>> THEN current \o <<" ">> \o trimmed
    ELSE IF HasPrefix(trimmed, kImport \o <<" ">>) THEN trimmed
    ELSE current

HasQuote(s) == Contains(s, <<DQ>>) \/ Contains(s, <<SQ>>)

\* the loop of parseImports from line k on: the statements it completes
RECURSIVE StatementsFrom(_, _, _)
StatementsFrom(lines, k, current) ==
    IF k > Len(lines) THEN <<>>
    ELSE LET buffer == FoldLine(current, TrimSpace(lines[k]))
         IN  IF buffer # <<>> /\ HasQuote(buffer)
             THEN <<buffer>> \o StatementsFrom(lines, k + 1, <<>>)
             ELSE StatementsFrom(lines, k + 1, buffer)

\* the calls of parseImportStatement made by parseImports, with their results
ParseCalls(lines) ==
    LET stmts == StatementsFrom(lines, 1, <<>>)
    IN  [c \in 1..Len(stmts) |->
            [stmt |-> stmts[c], info |-> parseImportStatement(stmts[c])]]

RECURSIVE RecordsFrom(_, _)
RecordsFrom(calls, c) ==
    IF c > Len(calls) THEN <<>>
    ELSE (IF calls[c].info.ok THEN <<calls[c].info>> ELSE <<>>)
         \o RecordsFrom(calls, c + 1)

parseImports(lines) == RecordsFrom(ParseCalls(lines), 1)

MaxParseLines == 4

\* import {
LineImportOpen ==
    <<"i","m","p","o","r","t"," ","{">>

\*   Panel as P,
LineRenamed ==
    <<" "," ","P","a","n","e","l"," ","a","s"," ","P",",">>

\* } from '@/c/ui'
LineFromUi ==
    <<"}"," ","f","r","o","m"," ",SQ,"@","/","c","/","u","i",SQ>>

\* import A from "./a"
LineImportA ==
    <<"i","m","p","o","r","t"," ","A"," ","f","r","o","m"," ",DQ,".","/","a",
      DQ>>

\* const s = 'x'
LineConst ==
    <<"c","o","n","s","t"," ","s"," ","="," ",SQ,"x",SQ>>

\* (a blank line)
LineBlank ==
    <<>>

\* imports('y')
LineCall ==
    <<"i","m","p","o","r","t","s","(",SQ,"y",SQ,")">>

\* import type {
LineImportType ==
    <<"i","m","p","o","r","t"," ","t","y","p","e"," ","{">>

ParseSamples ==
    {LineImportOpen, LineRenamed, LineFromUi, LineImportA,
     LineConst, LineBlank, LineCall, LineImportType}

PiInit ==
    /\ piLines \in SeqsUpTo(ParseSamples, MaxParseLines)
    /\ piPos = 0
    /\ currentImport = <<>>
    /\ imports = <<>>
    /\ piStart = 0
    /\ piCalls = <<>>
    /\ piRet = FALSE
    /\ FhdIdle /\ ExIdle /\ RsIdle /\ ScIdle /\ WkIdle

PiLooping == ~piRet /\ piPos < Len(piLines)

PiBuffer == FoldLine(currentImport, TrimSpace(piLines[piPos + 1]))

PiBufferStart == IF currentImport # <<>> THEN piStart ELSE piPos + 1

\* the line neither begins nor continues a statement
PiSkipLine ==
    /\ PiLooping
    /\ PiBuffer = <<>>
    /\ piPos' = piPos + 1
    /\ UNCHANGED <<piLines, currentImport, imports, piStart, piCalls, piRet>>
    /\ PiOnly

\* the statement is not complete yet
PiAccumulate ==
    /\ PiLooping
    /\ PiBuffer # <<>>
    /\ ~HasQuote(PiBuffer)
    /\ currentImport' = PiBuffer
    /\ piStart' = PiBufferStart
    /\ piPos' = piPos + 1
    /\ UNCHANGED <<piLines, imports, piCalls, piRet>>
    /\ PiOnly

PiCall == [first |-> PiBufferStart, last |-> piPos + 1, stmt |-> PiBuffer]

\* the statement is complete and yields a record
PiCompleteRecord ==
    /\ PiLooping
    /\ PiBuffer # <<>>
    /\ HasQuote(PiBuffer)
    /\ parseImportStatement(PiBuffer).ok
    /\ imports' = Append(imports, parseImportStatement(PiBuffer))
    /\ piCalls' = Append(piCalls, PiCall)
    /\ currentImport' = <<>>
    /\ piStart' = 0
    /\ piPos' = piPos + 1
    /\ UNCHANGED <<piLines, piRet>>
    /\ PiOnly

\* the statement is complete and parseImportStatement returns nil
PiCompleteNil ==
    /\ PiLooping
    /\ PiBuffer # <<>>
    /\ HasQuote(PiBuffer)
    /\ ~parseImportStatement(PiBuffer).ok
    /\ piCalls' = Append(piCalls, PiCall)
    /\ currentImport' = <<>>
    /\ piStart' = 0
    /\ piPos' = piPos + 1
    /\ UNCHANGED <<piLines, imports, piRet>>
    /\ PiOnly

PiReturn ==
    /\ ~piRet
    /\ piPos = Len(piLines)
    /\ piRet' = TRUE
    /\ UNCHANGED <<piLines, piPos, currentImport, imports, piStart, piCalls>>
    /\ PiOnly

PiNext ==
    PiSkipLine \/ PiAccumulate \/ PiCompleteRecord \/ PiCompleteNil \/ PiReturn

SpecParse == PiInit /\ [][PiNext]_vars

\* the trimmed lines a..b of the file, joined by single spaces
RECURSIVE JoinTrimmed(_, _, _)
JoinTrimmed(lines, a, b) ==
    IF a > b THEN <<>>
    ELSE IF a = b THEN TrimSpace(lines[a])
    ELSE JoinTrimmed(lines, a, b - 1) \o <<" ">> \o TrimSpace(lines[b])

StartsWithImport(k) == HasPrefix(TrimSpace(piLines[k]), kImport \o <<" ">>)

\* line k began a statement / line k continued one
PiBegan(k) ==
    \/ \E c \in 1..Len(piCalls) : piCalls[c].first = k
    \/ currentImport # <<>> /\ piStart = k

PiContinued(k) ==
    \/ \E c \in 1..Len(piCalls) : piCalls[c].first < k /\ k <= piCalls[c].last
    \/ currentImport # <<>> /\ piStart < k /\ k <= piPos

-----------------------------------------------------------------------------
(* Package path/filepath                                                   *)

Slash == <<"/">>
Dot == <<".">>
DotDot == <<".",".">>

RECURSIVE JoinWith(_, _)
JoinWith(segs, sep) ==
    IF segs = <<>> THEN <<>>
    ELSE IF Len(segs) = 1 THEN segs[1]
    ELSE segs[1] \o sep \o JoinWith(Tail(segs), sep)

RECURSIVE CleanSegs(_, _, _, _)
CleanSegs(segs, k, rooted, acc) ==
    IF k > Len(segs) THEN acc
    ELSE IF segs[k] = <<>> \/ segs[k] = Dot
         THEN CleanSegs(segs, k + 1, rooted, acc)
    ELSE IF segs[k] = DotDot
         THEN IF acc # <<>> /\ acc[Len(acc)] # DotDot
              THEN CleanSegs(segs, k + 1, rooted, SubSeq(acc, 1, Len(acc) - 1))
              ELSE IF rooted THEN CleanSegs(segs, k + 1, rooted, acc)
              ELSE CleanSegs(segs, k + 1, rooted, Append(acc, DotDot))
    ELSE CleanSegs(segs, k + 1, rooted, Append(acc, segs[k]))

IsAbs(p) == HasPrefix(p, Slash)

Clean(p) ==
    LET body == JoinWith(CleanSegs(Split(p, "/"), 1, IsAbs(p), <<>>), Slash)
    IN  IF IsAbs(p) THEN Slash \o body
        ELSE IF body = <<>> THEN Dot
        ELSE body

\* filepath.Join of two elements
Join(a, b) ==
    IF a = <<>> /\ b = <<>> THEN <<>>
    ELSE IF a = <<>> THEN Clean(b)
    ELSE IF b = <<>> THEN Clean(a)
    ELSE Clean(a \o Slash \o b)

Dir(p) ==
    LET slashes == {i \in 1..Len(p) : p[i] = "/"}
    IN  IF slashes = {} THEN Dot ELSE Clean(SubSeq(p, 1, SetMax(slashes)))

Base(p) ==
    LET slashes == {i \in 1..Len(p) : p[i] = "/"}
    IN  IF slashes = {} THEN p ELSE SubSeq(p, SetMax(slashes) + 1, Len(p))

Ext(p) ==
    LET dots == {i \in 1..Len(Base(p)) : Base(p)[i] = "."}
    IN  IF dots = {} THEN <<>> ELSE SubSeq(Base(p), SetMax(dots), Len(Base(p)))

-----------------------------------------------------------------------------
(* fileExists and expandPath                                               *)

\* os.Stat succeeds and the path is no directory
fileExists(fs, path) == path \in fs.files

IsDir(fs, path) == path \in fs.dirs

RECURSIVE ExtPathsFrom(_, _, _)
ExtPathsFrom(fs, basePath, k) ==
    IF k > Len(SearchExtensions) THEN <<>>
    ELSE (IF fileExists(fs, basePath \o SearchExtensions[k])
          THEN <<basePath \o SearchExtensions[k]>> ELSE <<>>)
         \o ExtPathsFrom(fs, basePath, k + 1)

IndexPath(basePath, ext) == Join(basePath, <<"i","n","d","e","x">> \o ext)

RECURSIVE IndexPathsFrom(_, _, _)
IndexPathsFrom(fs, basePath, k) ==
    IF k > Len(SearchExtensions) THEN <<>>
    ELSE (IF fileExists(fs, IndexPath(basePath, SearchExtensions[k]))
          THEN <<IndexPath(basePath, SearchExtensions[k])>> ELSE <<>>)
         \o IndexPathsFrom(fs, basePath, k + 1)

expandPath(fs, basePath) ==
    IF fileExists(fs, basePath) THEN <<basePath>>
    ELSE ExtPathsFrom(fs, basePath, 1)
         \o (IF IsDir(fs, basePath) THEN IndexPathsFrom(fs, basePath, 1)
             ELSE <<>>)

-----------------------------------------------------------------------------
(* expandPath, one filesystem query per step                               *)

\* c/ui
ExBasePath == <<"c","/","u","i">>

ExExtFiles == {ExBasePath \o SearchExtensions[k] : k \in 1..Len(SearchExtensions)}

ExIndexFiles ==
    {IndexPath(ExBasePath, SearchExtensions[k]) : k \in 1..Len(SearchExtensions)}

\* the filesystems around ExBasePath: it is a regular file, a directory
\* that may hold index files, or absent
ExFilesystems ==
    {[files |-> F \cup {ExBasePath}, dirs |-> {}] : F \in SUBSET ExExtFiles}
    \cup {[files |-> F, dirs |-> {}] : F \in SUBSET ExExtFiles}
    \cup {[files |-> F \cup G, dirs |-> {ExBasePath}] :
             F \in SUBSET ExExtFiles, G \in SUBSET ExIndexFiles}

ExInit ==
    /\ exFs \in ExFilesystems
    /\ exBase = ExBasePath
    /\ exPc = "asis"
    /\ exIdx = 0
    /\ paths = <<>>
    /\ FhdIdle /\ PiIdle /\ RsIdle /\ ScIdle /\ WkIdle

ExReturnAsIs ==
    /\ exPc = "asis"
    /\ fileExists(exFs, exBase)
    /\ paths' = Append(paths, exBase)
    /\ exPc' = "done"
    /\ UNCHANGED <<exFs, exBase, exIdx>>
    /\ ExOnly

ExNotAsIs ==
    /\ exPc = "asis"
    /\ ~fileExists(exFs, exBase)
    /\ exPc' = "ext"
    /\ exIdx' = 1
    /\ UNCHANGED <<exFs, exBase, paths>>
    /\ ExOnly

ExExtFound ==
    /\ exPc = "ext"
    /\ exIdx <= Len(SearchExtensions)
    /\ fileExists(exFs, exBase \o SearchExtensions[exIdx])
    /\ paths' = Append(paths, exBase \o SearchExtensions[exIdx])
    /\ exIdx' = exIdx + 1
    /\ UNCHANGED <<exFs, exBase, exPc>>
    /\ ExOnly

ExExtMissing ==
    /\ exPc = "ext"
    /\ exIdx <= Len(SearchExtensions)
    /\ ~fileExists(exFs, exBase \o SearchExtensions[exIdx])
    /\ exIdx' = exIdx + 1
    /\ UNCHANGED <<exFs, exBase, exPc, paths>>
    /\ ExOnly

ExStatDir ==
    /\ exPc = "ext"
    /\ exIdx > Len(SearchExtensions)
    /\ IsDir(exFs, exBase)
    /\ exPc' = "index"
    /\ exIdx' = 1
    /\ UNCHANGED <<exFs, exBase, paths>>
    /\ ExOnly

ExStatNotDir ==
    /\ exPc = "ext"
    /\ exIdx > Len(SearchExtensions)
    /\ ~IsDir(exFs, exBase)
    /\ exPc' = "done"
    /\ UNCHANGED <<exFs, exBase, exIdx, paths>>
    /\ ExOnly

ExIndexFound ==
    /\ exPc = "index"
    /\ exIdx <= Len(SearchExtensions)
    /\ fileExists(exFs, IndexPath(exBase, SearchExtensions[exIdx]))
    /\ paths' = Append(paths, IndexPath(exBase, SearchExtensions[exIdx]))
    /\ exIdx' = exIdx + 1
    /\ UNCHANGED <<exFs, exBase, exPc>>
    /\ ExOnly

ExIndexMissing ==
    /\ exPc = "index"
    /\ exIdx <= Len(SearchExtensions)
    /\ ~fileExists(exFs, IndexPath(exBase, SearchExtensions[exIdx]))
    /\ exIdx' = exIdx + 1
    /\ UNCHANGED <<exFs, exBase, exPc, paths>>
    /\ ExOnly

ExReturn ==
    /\ exPc = "index"
    /\ exIdx > Len(SearchExtensions)
    /\ exPc' = "done"
    /\ UNCHANGED <<exFs, exBase, exIdx, paths>>
    /\ ExOnly

ExNext ==
    \/ ExReturnAsIs \/ ExNotAsIs \/ ExExtFound \/ ExExtMissing \/ ExStatDir
    \/ ExStatNotDir \/ ExIndexFound \/ ExIndexMissing \/ ExReturn

SpecExpand == ExInit /\ [][ExNext]_vars

\* the existing files among the given ones, in the configured extension order
ExExisting(fileOf(_)) ==
    LET idx == {k \in 1..Len(SearchExtensions) : fileOf(SearchExtensions[k]) \in exFs.files}
        nth(n) == CHOOSE k \in idx : Cardinality({j \in idx : j < k}) = n - 1
    IN  [n \in 1..Cardinality(idx) |-> fileOf(SearchExtensions[nth(n)])]

ExWithExt(ext) == exBase \o ext
ExWithIndex(ext) == exBase \o <<"/","i","n","d","e","x">> \o ext

\* C4: expandPath stops at the first rule that yields a file: the base path
\* alone if it is a regular file; else the existing base+extension files and
\* no index file; index files only when neither rule yielded a file.
C4_FirstRuleWins ==
    exPc = "done" =>
        paths = IF exBase \in exFs.files THEN <<exBase>>
                ELSE IF ExExisting(ExWithExt) # <<>> THEN ExExisting(ExWithExt)
                ELSE IF exBase \in exFs.dirs THEN ExExisting(ExWithIndex)
                ELSE <<>>

-----------------------------------------------------------------------------
(* loadPathAliases, parseAliases and resolveImportPath                     *)

\* tsconfig.json, jsconfig.json, tsconfig.base.json
configPaths ==
    << <<"t","s","c","o","n","f","i","g",".","j","s","o","n">>,
       <<"j","s","c","o","n","f","i","g",".","j","s","o","n">>,
       <<"t","s","c","o","n","f","i","g",".","b","a","s","e",".","j","s","o",
         "n">> >>

\* the first configuration file of currentDir, as the set holding its path
ConfigIn(fs, currentDir) ==
    LET found == {k \in 1..Len(configPaths) :
                     fileExists(fs, Join(currentDir, configPaths[k]))}
    IN  IF found = {} THEN {} ELSE {Join(currentDir, configPaths[SetMin(found)])}

\* the upward search of loadPathAliases
RECURSIVE FindConfig(_, _)
FindConfig(fs, currentDir) ==
    IF ConfigIn(fs, currentDir) # {} THEN ConfigIn(fs, currentDir)
    ELSE IF Dir(currentDir) = currentDir THEN {}
    ELSE FindConfig(fs, Dir(currentDir))

\* json.Decode of the configuration file; a failure leaves no configuration
Decode(fs, configPath) == fs.json[configPath]

BaseURLOf(configPath, config) ==
    LET baseURL == IF config.BaseURL = <<>> THEN Dot ELSE config.BaseURL
    IN  IF IsAbs(baseURL) THEN baseURL ELSE Join(Dir(configPath), baseURL)

\* the body of the range loop of parseAliases for one key with targets
PathAlias(aliasPattern, targets, baseURL) ==
    LET alias == TrimSuffix(TrimSuffix(aliasPattern, <<"/","*">>), <<"*">>)
        target == TrimPrefix(TrimSuffix(TrimSuffix(targets[1], <<"/","*">>),
                                        <<"*">>), <<".","/">>)
    IN  [Alias |-> alias,
         Target |-> IF IsAbs(target) THEN target ELSE Join(baseURL, target)]

\* parseAliases when the range visits the keys in the order `order`
RECURSIVE AliasesInOrder(_, _, _, _)
AliasesInOrder(configPath, config, order, k) ==
    IF k > Len(order) THEN <<>>
    ELSE (IF config.Paths[order[k]].targets = <<>> THEN <<>>
          ELSE <<PathAlias(config.Paths[order[k]].key,
                           config.Paths[order[k]].targets,
                           BaseURLOf(configPath, config))>>)
         \o AliasesInOrder(configPath, config, order, k + 1)

\* loadPathAliases when the range of parseAliases visits the keys in `order`
loadPathAliases(fs, baseDir, order) ==
    IF FindConfig(fs, baseDir) = {} THEN <<>>
    ELSE LET configPath == CHOOSE c \in FindConfig(fs, baseDir) : TRUE
         IN  IF ~Decode(fs, configPath).valid THEN <<>>
             ELSE AliasesInOrder(configPath, Decode(fs, configPath), order, 1)

AliasTarget(alias, importPath) ==
    Join(alias.Target,
         TrimPrefix(TrimPrefix(importPath, alias.Alias), Slash))

\* a faulty variant of AliasedFrom: the loop ends at the first alias whose
\* prefix matches
RECURSIVE FirstAliasOnly(_, _, _, _)
FirstAliasOnly(fs, importPath, table, k) ==
    IF k > Len(table) THEN <<>>
    ELSE IF HasPrefix(importPath, table[k].Alias)
         THEN expandPath(fs, AliasTarget(table[k], importPath))
    ELSE FirstAliasOnly(fs, importPath, table, k + 1)

RECURSIVE AliasedFrom(_, _, _, _)
AliasedFrom(fs, importPath, table, k) ==
    IF k > Len(table) THEN <<>>
    ELSE (IF HasPrefix(importPath, table[k].Alias)
          THEN expandPath(fs, AliasTarget(table[k], importPath))
          ELSE <<>>)
         \o AliasedFrom(fs, importPath, table, k + 1)

resolveImportPath(fs, baseDir, importPath, table) ==
    IF HasPrefix(importPath, Dot)
    THEN expandPath(fs, Join(baseDir, importPath))
    ELSE AliasedFrom(fs, importPath, table, 1)

-----------------------------------------------------------------------------
(* A project on disk: the importer app/page.tsx, its modules, its aliases  *)

\* app/page.tsx
ImporterPath == <<"a","p","p","/","p","a","g","e",".","t","s","x">>
\* c/Button.tsx
ButtonFile == <<"c","/","B","u","t","t","o","n",".","t","s","x">>
\* c/ui/index.tsx
UiIndexFile == <<"c","/","u","i","/","i","n","d","e","x",".","t","s","x">>
\* lib/Card.tsx
LibCardFile == <<"l","i","b","/","C","a","r","d",".","t","s","x">>
\* x/Card.tsx
XCardFile == <<"x","/","C","a","r","d",".","t","s","x">>
\* tsconfig.json
RootConfigFile == <<"t","s","c","o","n","f","i","g",".","j","s","o","n">>
\* app/jsconfig.json
AppConfigFile == <<"a","p","p","/","j","s","c","o","n","f","i","g",".","j","s","o","n">>

ModuleFiles == {ButtonFile, UiIndexFile, LibCardFile, XCardFile}

ProjectDirs == {Dot, <<"a","p","p">>, <<"c">>, <<"c","/","u","i">>, <<"l","i","b">>, <<"x">>}

\* a module that opens with the directive, and one that states it after code
MarkedText ==
    << <<"/","/"," ","c">>,
       <<SQ,"u","s","e"," ","c","l","i","e","n","t",SQ,";">>,
       <<"x","(",")">> >>

UnmarkedText ==
    << <<"x","(",")">>,
       <<DQ,"u","s","e"," ","c","l","i","e","n","t",DQ>> >>

\* { "compilerOptions": { "baseUrl": ".",
\*     "paths": { "@/*": ["./*"], "@x/*": ["./lib/*"] } } }
ConfigA ==
    [valid |-> TRUE, BaseURL |-> Dot,
     Paths |-> << [key |-> <<"@","/","*">>, targets |-> << <<".","/","*">> >>],
                  [key |-> <<"@","x","/","*">>,
                   targets |-> << <<".","/","l","i","b","/","*">> >>] >>]

\* { "compilerOptions": { "paths": { "@x/*": ["./lib/*", "./x/*"],
\*     "~/*": [], "@/*": ["./*"] } } }
ConfigB ==
    [valid |-> TRUE, BaseURL |-> <<>>,
     Paths |-> << [key |-> <<"@","x","/","*">>,
                   targets |-> << <<".","/","l","i","b","/","*">>,
                                  <<".","/","x","/","*">> >>],
                  [key |-> <<"~","/","*">>, targets |-> <<>>],
                  [key |-> <<"@","/","*">>, targets |-> << <<".","/","*">> >>] >>]

\* the project with the given configuration files, module files and marked
\* modules; opening a file of `denied` fails
Project(configs, modules, marked, denied) ==
    [files |-> {ImporterPath} \cup modules \cup DOMAIN configs,
     dirs |-> ProjectDirs,
     denied |-> denied,
     text |-> [f \in modules |-> IF f \in marked THEN MarkedText ELSE UnmarkedText],
     json |-> configs]

ConfigAt(path, config) == [f \in {path} |-> config]

ConfigSetups ==
    { ConfigAt(RootConfigFile, ConfigA),
      ConfigAt(RootConfigFile, ConfigB),
      ConfigAt(RootConfigFile, NoConfig),
      ConfigAt(AppConfigFile, ConfigA),
      [f \in {} |-> NoConfig] }

baseDir == Dir(ImporterPath)

\* ../c/Button
SpecButton == <<".",".","/","c","/","B","u","t","t","o","n">>
\* @/c/ui
SpecUi == <<"@","/","c","/","u","i">>
\* @x/Card
SpecCard == <<"@","x","/","C","a","r","d">>
\* react
SpecReact == <<"r","e","a","c","t">>
\* ./missing
SpecMissing == <<".","/","m","i","s","s","i","n","g">>

-----------------------------------------------------------------------------
(* Loading the alias table and resolving one specifier, step by step       *)

RsFilesystems ==
    {Project(cfg, ModuleFiles \ gone, {}, {}) :
        cfg \in ConfigSetups, gone \in {{}, {XCardFile}, {LibCardFile}}}

RsSpecifiers == {SpecButton, SpecUi, SpecCard, SpecReact, SpecMissing}

RsInit ==
    /\ rsFs \in RsFilesystems
    /\ rsSpecifier \in RsSpecifiers
    /\ rsPc = "load"
    /\ rsConfig = NoConfig
    /\ rsLeft = {}
    /\ aliases = <<>>
    /\ rsIdx = 0
    /\ candidates = <<>>
    /\ FhdIdle /\ PiIdle /\ ExIdle /\ ScIdle /\ WkIdle

\* no configuration file up to the top directory
RsLoadNoFile ==
    /\ rsPc = "load"
    /\ FindConfig(rsFs, baseDir) = {}
    /\ rsPc' = "resolve"
    /\ rsIdx' = 1
    /\ UNCHANGED <<rsFs, rsSpecifier, rsConfig, rsLeft, aliases, candidates>>
    /\ RsOnly

\* the configuration file does not decode: parseAliases returns nil
RsLoadUndecodable ==
    /\ rsPc = "load"
    /\ \E configPath \in FindConfig(rsFs, baseDir) :
          ~Decode(rsFs, configPath).valid
    /\ rsPc' = "resolve"
    /\ rsIdx' = 1
    /\ UNCHANGED <<rsFs, rsSpecifier, rsConfig, rsLeft, aliases, candidates>>
    /\ RsOnly

RsLoadConfig ==
    /\ rsPc = "load"
    /\ \E configPath \in FindConfig(rsFs, baseDir) :
          /\ Decode(rsFs, configPath).valid
          /\ rsConfig' = Decode(rsFs, configPath)
          /\ rsLeft' = 1..Len(Decode(rsFs, configPath).Paths)
    /\ rsPc' = "range"
    /\ UNCHANGED <<rsFs, rsSpecifier, aliases, rsIdx, candidates>>
    /\ RsOnly

RsConfigPath == CHOOSE configPath \in FindConfig(rsFs, baseDir) : TRUE

\* the range over the map Paths visits its keys in no particular order
RsRangeSkip ==
    /\ rsPc = "range"
    /\ \E k \in rsLeft :
          /\ rsConfig.Paths[k].targets = <<>>
          /\ rsLeft' = rsLeft \ {k}
    /\ UNCHANGED <<rsFs, rsSpecifier, rsPc, rsConfig, aliases, rsIdx, candidates>>
    /\ RsOnly

RsRangeAppend ==
    /\ rsPc = "range"
    /\ \E k \in rsLeft :
          /\ rsConfig.Paths[k].targets # <<>>
          /\ aliases' = Append(aliases,
                PathAlias(rsConfig.Paths[k].key, rsConfig.Paths[k].targets,
                          BaseURLOf(RsConfigPath, rsConfig)))
          /\ rsLeft' = rsLeft \ {k}
    /\ UNCHANGED <<rsFs, rsSpecifier, rsPc, rsConfig, rsIdx, candidates>>
    /\ RsOnly

RsRangeEnd ==
    /\ rsPc = "range"
    /\ rsLeft = {}
    /\ rsPc' = "resolve"
    /\ rsIdx' = 1
    /\ UNCHANGED <<rsFs, rsSpecifier, rsConfig, rsLeft, aliases, candidates>>
    /\ RsOnly

RsRelative ==
    /\ rsPc = "resolve"
    /\ HasPrefix(rsSpecifier, Dot)
    /\ candidates' = candidates \o expandPath(rsFs, Join(baseDir, rsSpecifier))
    /\ rsPc' = "done"
    /\ UNCHANGED <<rsFs, rsSpecifier, rsConfig, rsLeft, aliases, rsIdx>>
    /\ RsOnly

RsAliasHit ==
    /\ rsPc = "resolve"
    /\ ~HasPrefix(rsSpecifier, Dot)
    /\ rsIdx <= Len(aliases)
    /\ HasPrefix(rsSpecifier, aliases[rsIdx].Alias)
    /\ candidates' =
          candidates \o expandPath(rsFs, AliasTarget(aliases[rsIdx], rsSpecifier))
    /\ rsIdx' = rsIdx + 1
    /\ UNCHANGED <<rsFs, rsSpecifier, rsPc, rsConfig, rsLeft, aliases>>
    /\ RsOnly

RsAliasMiss ==
    /\ rsPc = "resolve"
    /\ ~HasPrefix(rsSpecifier, Dot)
    /\ rsIdx <= Len(aliases)
    /\ ~HasPrefix(rsSpecifier, aliases[rsIdx].Alias)
    /\ rsIdx' = rsIdx + 1
    /\ UNCHANGED <<rsFs, rsSpecifier, rsPc, rsConfig, rsLeft, aliases, candidates>>
    /\ RsOnly

RsReturn ==
    /\ rsPc = "resolve"
    /\ ~HasPrefix(rsSpecifier, Dot)
    /\ rsIdx > Len(aliases)
    /\ rsPc' = "done"
    /\ UNCHANGED <<rsFs, rsSpecifier, rsConfig, rsLeft, aliases, rsIdx, candidates>>
    /\ RsOnly

RsNext ==
    \/ RsLoadNoFile \/ RsLoadUndecodable \/ RsLoadConfig \/ RsRangeSkip
    \/ RsRangeAppend \/ RsRangeEnd \/ RsRelative \/ RsAliasHit \/ RsAliasMiss
    \/ RsReturn

SpecResolve == RsInit /\ [][RsNext]_vars

\* the order in which the configuration file lists the keys of "paths"
KeyOrder(fs) ==
    IF FindConfig(fs, baseDir) = {} THEN <<>>
    ELSE [k \in 1..Len(Decode(fs, CHOOSE c \in FindConfig(fs, baseDir) : TRUE).Paths)
             |-> k]

\* C6: loading the alias table and resolving a specifier yields, on every
\* run, the candidate list that the configuration's key ordering yields.
C6_Deterministic ==
    rsPc = "done" =>
        candidates = resolveImportPath(rsFs, baseDir, rsSpecifier,
                        loadPathAliases(rsFs, baseDir, KeyOrder(rsFs)))

-----------------------------------------------------------------------------
(* containsJSXTag and the loops of scanFile                                *)

\* \b between the characters p - 1 and p of s
WordBoundary(s, p) ==
    (p - 1 >= 1 /\ IsWord(s[p - 1])) # (p <= Len(s) /\ IsWord(s[p]))

\* <\s*NAME\b matches at position i
TagAt(line, i, componentName) ==
    /\ line[i] = "<"
    /\ \E j \in (i + 1)..SkipSpaces(line, i + 1) :
          /\ MatchAt(line, j, componentName)
          /\ WordBoundary(line, j + Len(componentName))

containsJSXTag(line, componentName) ==
    \E i \in 1..Len(line) : TagAt(line, i, componentName)

\* os.Open fails on a missing or denied file
CanOpen(fs, path) == path \in fs.files /\ path \notin fs.denied

fileHasDirective(fs, filePath) ==
    /\ CanOpen(fs, filePath)
    /\ filePath \in DOMAIN fs.text
    /\ FileHasDirectiveLines(fs.text[filePath])

\* a faulty variant of CandidateLoop: the first candidate alone is checked
CheckOnlyFirst(fs, resolvedPaths, k) ==
    IF k > Len(resolvedPaths) THEN [checked |-> <<>>, marked |-> FALSE]
    ELSE [checked |-> <<resolvedPaths[k]>>,
          marked |-> fileHasDirective(fs, resolvedPaths[k])]

\* the loop over resolvedPaths: the candidates fileHasDirective was called
\* on, and whether one of them was marked
RECURSIVE CandidateLoop(_, _, _)
CandidateLoop(fs, resolvedPaths, k) ==
    IF k > Len(resolvedPaths) THEN [checked |-> <<>>, marked |-> FALSE]
    ELSE IF fileHasDirective(fs, resolvedPaths[k])
         THEN [checked |-> <<resolvedPaths[k]>>, marked |-> TRUE]
    ELSE LET rest == CandidateLoop(fs, resolvedPaths, k + 1)
         IN  [checked |-> <<resolvedPaths[k]>> \o rest.checked,
              marked |-> rest.marked]

ReportLine(filePath, lineNum, line) ==
    [filePath |-> filePath, lineNumber |-> lineNum + 1, lineText |-> line]

\* a faulty variant of LinePrints: no break after the first match
RECURSIVE PrintEveryMatch(_, _, _, _, _)
PrintEveryMatch(filePath, lineNum, line, order, k) ==
    IF k > Len(order) THEN <<>>
    ELSE (IF containsJSXTag(line, order[k])
          THEN <<ReportLine(filePath, lineNum, line)>> ELSE <<>>)
         \o PrintEveryMatch(filePath, lineNum, line, order, k + 1)

\* the loop over clientComponents for one line, the range visiting the names
\* in the order `order`: what is printed
RECURSIVE LinePrints(_, _, _, _, _)
LinePrints(filePath, lineNum, line, order, k) ==
    IF k > Len(order) THEN <<>>
    ELSE IF containsJSXTag(line, order[k])
         THEN <<ReportLine(filePath, lineNum, line)>>
    ELSE LinePrints(filePath, lineNum, line, order, k + 1)

\* the orders in which a range may visit the elements of a set
RECURSIVE Perms(_)
Perms(S) ==
    IF S = {} THEN {<<>>}
    ELSE UNION {{<<x>> \o rest : rest \in Perms(S \ {x})} : x \in S}

Range(f) == {f[x] : x \in DOMAIN f}

-----------------------------------------------------------------------------
(* scanFile on app/page.tsx                                                *)

ScOpenError ==
    /\ scPc = "open"
    /\ ~CanOpen(scFs, ImporterPath)
    /\ scErr' = TRUE
    /\ scPc' = "done"
    /\ UNCHANGED <<scFs, scLines, scCalls, scImports, scAliases, scIdx,
                   clientComponents, scLog, scLine, output>>
    /\ ScOnly

ScNoImports ==
    /\ scPc = "open"
    /\ CanOpen(scFs, ImporterPath)
    /\ LET calls == ParseCalls(scLines)
       IN  /\ RecordsFrom(calls, 1) = <<>>
           /\ scCalls' = calls
    /\ scPc' = "done"
    /\ UNCHANGED <<scFs, scLines, scImports, scAliases, scIdx,
                   clientComponents, scLog, scLine, output, scErr>>
    /\ ScOnly

ScParsed ==
    /\ scPc = "open"
    /\ CanOpen(scFs, ImporterPath)
    /\ LET calls == ParseCalls(scLines)
       IN  /\ RecordsFrom(calls, 1) # <<>>
           /\ scCalls' = calls
           /\ scImports' = RecordsFrom(calls, 1)
    /\ scPc' = "load"
    /\ UNCHANGED <<scFs, scLines, scAliases, scIdx, clientComponents, scLog,
                   scLine, output, scErr>>
    /\ ScOnly

ScLoadAliases ==
    /\ scPc = "load"
    /\ \E order \in Perms(Range(KeyOrder(scFs))) :
          scAliases' = loadPathAliases(scFs, Dir(ImporterPath), order)
    /\ scPc' = "imports"
    /\ scIdx' = 1
    /\ UNCHANGED <<scFs, scLines, scCalls, scImports, clientComponents, scLog,
                   scLine, output, scErr>>
    /\ ScOnly

ScResolved ==
    resolveImportPath(scFs, Dir(ImporterPath), scImports[scIdx].Source, scAliases)

ScLogEntry ==
    LET resolvedPaths == ScResolved
        loop == CandidateLoop(scFs, resolvedPaths, 1)
    IN  [resolvedPaths |-> resolvedPaths,
         checked |-> loop.checked,
         marked |-> loop.marked]

ScImportMarked ==
    /\ scPc = "imports"
    /\ scIdx <= Len(scImports)
    /\ LET entry == ScLogEntry
       IN  /\ entry.marked
           /\ scLog' = Append(scLog, entry)
    /\ clientComponents' =
          clientComponents \cup Range(scImports[scIdx].Specifiers)
    /\ scIdx' = scIdx + 1
    /\ UNCHANGED <<scFs, scLines, scPc, scCalls, scImports, scAliases, scLine,
                   output, scErr>>
    /\ ScOnly

ScImportUnmarked ==
    /\ scPc = "imports"
    /\ scIdx <= Len(scImports)
    /\ LET entry == ScLogEntry
       IN  /\ ~entry.marked
           /\ scLog' = Append(scLog, entry)
    /\ scIdx' = scIdx + 1
    /\ UNCHANGED <<scFs, scLines, scPc, scCalls, scImports, scAliases,
                   clientComponents, scLine, output, scErr>>
    /\ ScOnly

ScNoComponents ==
    /\ scPc = "imports"
    /\ scIdx > Len(scImports)
    /\ clientComponents = {}
    /\ scPc' = "done"
    /\ UNCHANGED <<scFs, scLines, scCalls, scImports, scAliases, scIdx,
                   clientComponents, scLog, scLine, output, scErr>>
    /\ ScOnly

ScStartReport ==
    /\ scPc = "imports"
    /\ scIdx > Len(scImports)
    /\ clientComponents # {}
    /\ scPc' = "report"
    /\ scLine' = 1
    /\ UNCHANGED <<scFs, scLines, scCalls, scImports, scAliases, scIdx,
                   clientComponents, scLog, output, scErr>>
    /\ ScOnly

ScLinePrinted ==
    /\ scPc = "report"
    /\ scLine <= Len(scLines)
    /\ \E order \in Perms(clientComponents) :
          /\ LinePrints(ImporterPath, scLine - 1, scLines[scLine], order, 1) # <<>>
          /\ output' = output \o
                LinePrints(ImporterPath, scLine - 1, scLines[scLine], order, 1)
    /\ scLine' = scLine + 1
    /\ UNCHANGED <<scFs, scLines, scPc, scCalls, scImports, scAliases, scIdx,
                   clientComponents, scLog, scErr>>
    /\ ScOnly

ScLineSilent ==
    /\ scPc = "report"
    /\ scLine <= Len(scLines)
    /\ \E order \in Perms(clientComponents) :
          LinePrints(ImporterPath, scLine - 1, scLines[scLine], order, 1) = <<>>
    /\ scLine' = scLine + 1
    /\ UNCHANGED <<scFs, scLines, scPc, scCalls, scImports, scAliases, scIdx,
                   clientComponents, scLog, output, scErr>>
    /\ ScOnly

ScReturn ==
    /\ scPc = "report"
    /\ scLine > Len(scLines)
    /\ scPc' = "done"
    /\ UNCHANGED <<scFs, scLines, scCalls, scImports, scAliases, scIdx,
                   clientComponents, scLog, scLine, output, scErr>>
    /\ ScOnly

ScNext ==
    \/ ScOpenError \/ ScNoImports \/ ScParsed \/ ScLoadAliases
    \/ ScImportMarked \/ ScImportUnmarked \/ ScNoComponents \/ ScStartReport
    \/ ScLinePrinted \/ ScLineSilent \/ ScReturn

ScStart ==
    /\ scPc = "open"
    /\ scCalls = <<>>
    /\ scImports = <<>>
    /\ scAliases = <<>>
    /\ scIdx = 0
    /\ clientComponents = {}
    /\ scLog = <<>>
    /\ scLine = 0
    /\ output = <<>>
    /\ scErr = FALSE
    /\ FhdIdle /\ PiIdle /\ ExIdle /\ RsIdle /\ WkIdle

-----------------------------------------------------------------------------
(* Inputs of scanFile                                                      *)

MaxScanLines == 3

\* import Button from '../c/Button'
ImportButton ==
    <<"i","m","p","o","r","t"," ","B","u","t","t","o","n"," ","f","r","o","m",
      " ",SQ,".",".","/","c","/","B","u","t","t","o","n",SQ>>

\* import Card, { Body } from "@x/Card"
ImportCard ==
    <<"i","m","p","o","r","t"," ","C","a","r","d",","," ","{"," ","B","o","d",
      "y"," ","}"," ","f","r","o","m"," ",DQ,"@","x","/","C","a","r","d",DQ>>

\* import React from 'react'
ImportReact ==
    <<"i","m","p","o","r","t"," ","R","e","a","c","t"," ","f","r","o","m"," ",
      SQ,"r","e","a","c","t",SQ>>

\*   <Button />
UseButton ==
    <<" "," ","<","B","u","t","t","o","n"," ","/",">">>

\* < Card><Body>x</Body>
UseCardBody ==
    <<"<"," ","C","a","r","d",">","<","B","o","d","y",">","x","<","/","B","o",
      "d","y",">">>

\* <Buttons />
UseButtons ==
    <<"<","B","u","t","t","o","n","s"," ","/",">">>

\* <Panel>
UsePanel ==
    <<"<","P","a","n","e","l",">">>

ScanSamples ==
    {ImportButton, ImportCard, ImportReact, UseButton, UseCardBody, UseButtons}

ScanFilesystems ==
    { Project(ConfigAt(RootConfigFile, ConfigA), ModuleFiles,
              {ButtonFile, UiIndexFile, XCardFile}, {}),
      Project(ConfigAt(RootConfigFile, ConfigA), ModuleFiles, {LibCardFile}, {}),
      Project([f \in {} |-> NoConfig], ModuleFiles, ModuleFiles, {}),
      Project(ConfigAt(RootConfigFile, ConfigA), ModuleFiles, ModuleFiles,
              {ImporterPath}) }

ScInit ==
    /\ scFs \in ScanFilesystems
    /\ scLines \in SeqsUpTo(ScanSamples, MaxScanLines)
    /\ ScStart

SpecScan == ScInit /\ [][ScNext]_vars

\* import { Panel as P, type T, Q } from '@/c/ui'
ImportRenamed ==
    <<"i","m","p","o","r","t"," ","{"," ","P","a","n","e","l"," ","a","s"," ",
      "P",","," ","t","y","p","e"," ","T",","," ","Q"," ","}"," ","f","r","o",
      "m"," ",SQ,"@","/","c","/","u","i",SQ>>

\* import * as NS from "@x/Card"
ImportNamespace ==
    <<"i","m","p","o","r","t"," ","*"," ","a","s"," ","N","S"," ","f","r","o",
      "m"," ",DQ,"@","x","/","C","a","r","d",DQ>>

\* import type { Foo } from '../c/Button'
ImportTypeOnly ==
    <<"i","m","p","o","r","t"," ","t","y","p","e"," ","{"," ","F","o","o"," ",
      "}"," ","f","r","o","m"," ",SQ,".",".","/","c","/","B","u","t","t","o",
      "n",SQ>>

\* import D, * as N from '../c/Button'
ImportDefaultNamespace ==
    <<"i","m","p","o","r","t"," ","D",","," ","*"," ","a","s"," ","N"," ","f",
      "r","o","m"," ",SQ,".",".","/","c","/","B","u","t","t","o","n",SQ>>

\* import Panel from '../c/Button'
ImportPanelDefault ==
    <<"i","m","p","o","r","t"," ","P","a","n","e","l"," ","f","r","o","m"," ",
      SQ,".",".","/","c","/","B","u","t","t","o","n",SQ>>

\* <P>
UseP ==
    <<"<","P",">">>

MarkSamples ==
    {ImportRenamed, ImportNamespace, ImportTypeOnly, ImportDefaultNamespace,
     ImportPanelDefault, UseP, UsePanel}

MarkFilesystems ==
    { Project(ConfigAt(RootConfigFile, ConfigA), ModuleFiles, ModuleFiles, {}),
      Project(ConfigAt(RootConfigFile, ConfigA), ModuleFiles, {UiIndexFile}, {}),
      Project(ConfigAt(RootConfigFile, ConfigA), ModuleFiles, ModuleFiles,
              {ImporterPath}) }

MarkInit ==
    /\ scFs \in MarkFilesystems
    /\ scLines \in SeqsUpTo(MarkSamples, MaxScanLines)
    /\ ScStart

SpecMark == MarkInit /\ [][ScNext]_vars

-----------------------------------------------------------------------------
(* scanFile as a function of the file, the filesystem and the alias table  *)

\* the names marked by the imports from the k-th on
RECURSIVE MarkedFrom(_, _, _, _)
MarkedFrom(fs, imps, table, k) ==
    IF k > Len(imps) THEN {}
    ELSE (IF CandidateLoop(fs,
                resolveImportPath(fs, Dir(ImporterPath), imps[k].Source, table),
                1).marked
          THEN Range(imps[k].Specifiers) ELSE {})
         \cup MarkedFrom(fs, imps, table, k + 1)

\* what the loop over the lines prints from line n on, the names visited in
\* the order `order`
RECURSIVE ReportFrom(_, _, _)
ReportFrom(lines, order, n) ==
    IF n > Len(lines) THEN <<>>
    ELSE LinePrints(ImporterPath, n - 1, lines[n], order, 1)
         \o ReportFrom(lines, order, n + 1)

\* the run in which every range follows the key order of the configuration
KeyOrderTable(fs) == loadPathAliases(fs, Dir(ImporterPath), KeyOrder(fs))

KeyOrderMarked(fs, lines) ==
    MarkedFrom(fs, parseImports(lines), KeyOrderTable(fs), 1)

KeyOrderOutput(fs, lines) ==
    LET names == KeyOrderMarked(fs, lines)
    IN  ReportFrom(lines, CHOOSE order \in Perms(names) : TRUE, 1)

-----------------------------------------------------------------------------
(* Properties of scanFile                                                  *)

IsPrefixOf(a, b) == Len(a) <= Len(b) /\ SubSeq(b, 1, Len(a)) = a

\* no alias prefix matches a specifier that is not relative
IsBare(importPath) ==
    /\ ~HasPrefix(importPath, Dot)
    /\ \A k \in 1..Len(scAliases) : ~HasPrefix(importPath, scAliases[k].Alias)

LogEntryFollowsRule(e) ==
    /\ e.marked <=>
          \E k \in 1..Len(e.resolvedPaths) : fileHasDirective(scFs, e.resolvedPaths[k])
    /\ IsPrefixOf(e.checked, e.resolvedPaths)
    /\ \A k \in 1..(Len(e.checked) - 1) : ~fileHasDirective(scFs, e.checked[k])
    /\ e.marked =>
          /\ e.checked # <<>>
          /\ fileHasDirective(scFs, e.checked[Len(e.checked)])
    /\ ~e.marked => e.checked = e.resolvedPaths

\* C8: the names of an import are marked iff one of its candidates carries
\* the directive; the candidates are checked in resolution order up to the
\* first marked one; an import without candidates (every bare specifier) or
\* with unmarked candidates only adds no name.
C8_Propagation ==
    /\ \A i \in 1..Len(scLog) :
          /\ LogEntryFollowsRule(scLog[i])
          /\ IsBare(scImports[i].Source) => scLog[i].resolvedPaths = <<>>
          /\ scLog[i].resolvedPaths = <<>> => ~scLog[i].marked
    /\ clientComponents =
          UNION {Range(scImports[i].Specifiers) :
                    i \in {j \in 1..Len(scLog) : scLog[j].marked}}

\* one file with an import that stopped at its first, marked candidate, an
\* import whose candidates are all unmarked and a bare import
C8_Witness ==
    /\ scPc = "done"
    /\ \E i \in 1..Len(scLog) :
          scLog[i].marked /\ Len(scLog[i].checked) < Len(scLog[i].resolvedPaths)
    /\ \E i \in 1..Len(scLog) :
          ~scLog[i].marked /\ scLog[i].resolvedPaths # <<>>
    /\ \E i \in 1..Len(scLog) :
          IsBare(scImports[i].Source) /\ scImports[i].Specifiers # <<>>

\* the lines among the first n that hold a tag of a marked name
TagLines(n) ==
    {k \in 1..n : \E c \in clientComponents : containsJSXTag(scLines[k], c)}

\* C7: a line is reported iff it holds a tag-opening occurrence of at least
\* one marked name, once however many marked names it holds, with its
\* 1-based number and its text, in ascending line order.
C7_ReportLines ==
    /\ scPc = "report" =>
          /\ Len(output) = Cardinality(TagLines(scLine - 1))
          /\ \A i \in 1..Len(output) :
                /\ output[i].lineNumber \in TagLines(scLine - 1)
                /\ output[i].lineText = scLines[output[i].lineNumber]
                /\ output[i].filePath = ImporterPath
          /\ \A i \in 1..(Len(output) - 1) :
                output[i].lineNumber < output[i + 1].lineNumber
    /\ scPc = "done" =>
          /\ {output[i].lineNumber : i \in 1..Len(output)} = TagLines(Len(scLines))
          /\ Len(output) = Cardinality(TagLines(Len(scLines)))
          /\ \A i \in 1..Len(output) :
                /\ output[i].lineText = scLines[output[i].lineNumber]
                /\ output[i].filePath = ImporterPath
          /\ \A i \in 1..(Len(output) - 1) :
                output[i].lineNumber < output[i + 1].lineNumber

\* a reported line that holds the tags of two marked names, and a line
\* with a tag of an unmarked name that is not reported
C7_Witness ==
    /\ scPc = "done"
    /\ \E i \in 1..Len(output) :
          Cardinality({c \in clientComponents :
                          containsJSXTag(output[i].lineText, c)}) >= 2
    /\ \E k \in 1..Len(scLines) :
          /\ \E i \in 1..Len(scLines[k]) : scLines[k][i] = "<"
          /\ \A i \in 1..Len(output) : output[i].lineNumber # k

\* C10: whatever the order of the alias entries and the order in which
\* the marked names are visited, the marked names and the reported lines
\* are those of the run that follows the key order of the configuration.
C10_OrderIndependent ==
    (scPc = "done" /\ ~scErr) =>
        /\ clientComponents = KeyOrderMarked(scFs, scLines)
        /\ output = KeyOrderOutput(scFs, scLines)

\* a finished run whose alias table is not in key order, with an import of
\* two candidates and a reported line
C10_Witness ==
    /\ scPc = "done"
    /\ scAliases # KeyOrderTable(scFs)
    /\ \E i \in 1..Len(scLog) : Len(scLog[i].resolvedPaths) >= 2
    /\ output # <<>>

-----------------------------------------------------------------------------
(* scanPath: filepath.Walk over a tree, and the exit status of main        *)

\* proj
WkProj ==
    <<"p","r","o","j">>

\* proj/a.tsx
WkFileA ==
    <<"p","r","o","j","/","a",".","t","s","x">>

\* proj/node_modules
WkNodeModules ==
    <<"p","r","o","j","/","n","o","d","e","_","m","o","d","u","l","e","s">>

\* proj/node_modules/m.js
WkModule ==
    <<"p","r","o","j","/","n","o","d","e","_","m","o","d","u","l","e","s","/",
      "m",".","j","s">>

\* proj/notes.md
WkNotes ==
    <<"p","r","o","j","/","n","o","t","e","s",".","m","d">>

\* proj/sub
WkSub ==
    <<"p","r","o","j","/","s","u","b">>

\* proj/sub/b.tsx
WkFileB ==
    <<"p","r","o","j","/","s","u","b","/","b",".","t","s","x">>

\* proj/z.tsx
WkFileZ ==
    <<"p","r","o","j","/","z",".","t","s","x">>

WkDirs == {WkProj, WkNodeModules, WkSub}

WkFiles == {WkFileA, WkModule, WkNotes, WkFileB, WkFileZ}

\* the names ReadDir yields for a directory, sorted
WkNames(dir) ==
    CASE dir = WkProj ->
            << <<"a",".","t","s","x">>,
               <<"n","o","d","e","_","m","o","d","u","l","e","s">>,
               <<"n","o","t","e","s",".","m","d">>,
               <<"s","u","b">>,
               <<"z",".","t","s","x">> >>
      [] dir = WkNodeModules -> << <<"m",".","j","s">> >>
      [] dir = WkSub -> << <<"b",".","t","s","x">> >>
      [] OTHER -> <<>>

\* filename := Join(path, name) for each name of the directory
WkEntries(dir) == [k \in 1..Len(WkNames(dir)) |-> Join(dir, WkNames(dir)[k])]

\* the directory names the callback answers SkipDir for
SkipNames ==
    { <<"n","o","d","e","_","m","o","d","u","l","e","s">>,
      <<".","g","i","t">>,
      <<"d","i","s","t">>,
      <<"b","u","i","l","d">> }

isSupportedFile(path) ==
    \E k \in 1..Len(SearchExtensions) : Ext(path) = SearchExtensions[k]

\* the entry Walk visits next, and the stack once that entry is done
WkHead == wkStack[Len(wkStack)][1]

WkAdvance ==
    [wkStack EXCEPT ![Len(wkStack)] = Tail(wkStack[Len(wkStack)])]

WkVisiting == wkPc = "walk" /\ wkStack[Len(wkStack)] # <<>>

\* Lstat of the root or of an entry fails: the callback gets the error,
\* returns it, and Walk returns it
WkLstatFails ==
    /\ WkVisiting
    /\ WkHead \in wkFs.lstatFails
    /\ wkErr' = <<WkHead>>
    /\ wkPc' = "main"
    /\ UNCHANGED <<wkFs, wkStack, wkScanned, wkWarned, wkExit>>
    /\ WkOnly

\* the names of a directory cannot be read: the callback gets the error,
\* returns it, and Walk returns it
WkReadDirFails ==
    /\ WkVisiting
    /\ WkHead \notin wkFs.lstatFails
    /\ WkHead \in WkDirs
    /\ WkHead \in wkFs.unreadable
    /\ wkErr' = <<WkHead>>
    /\ wkPc' = "main"
    /\ UNCHANGED <<wkFs, wkStack, wkScanned, wkWarned, wkExit>>
    /\ WkOnly

\* the callback returns SkipDir: Walk goes on after the directory
WkSkipDir ==
    /\ WkVisiting
    /\ WkHead \notin wkFs.lstatFails
    /\ WkHead \in WkDirs
    /\ WkHead \notin wkFs.unreadable
    /\ Base(WkHead) \in SkipNames
    /\ wkStack' = WkAdvance
    /\ UNCHANGED <<wkFs, wkPc, wkScanned, wkWarned, wkErr, wkExit>>
    /\ WkOnly

\* the callback returns nil for a directory: Walk visits its entries
WkEnterDir ==
    /\ WkVisiting
    /\ WkHead \notin wkFs.lstatFails
    /\ WkHead \in WkDirs
    /\ WkHead \notin wkFs.unreadable
    /\ Base(WkHead) \notin SkipNames
    /\ wkStack' = Append(WkAdvance, WkEntries(WkHead))
    /\ UNCHANGED <<wkFs, wkPc, wkScanned, wkWarned, wkErr, wkExit>>
    /\ WkOnly

WkFileUnsupported ==
    /\ WkVisiting
    /\ WkHead \notin wkFs.lstatFails
    /\ WkHead \notin WkDirs
    /\ ~isSupportedFile(WkHead)
    /\ wkStack' = WkAdvance
    /\ UNCHANGED <<wkFs, wkPc, wkScanned, wkWarned, wkErr, wkExit>>
    /\ WkOnly

\* scanFile returns nil
WkFileScanned ==
    /\ WkVisiting
    /\ WkHead \notin wkFs.lstatFails
    /\ WkHead \notin WkDirs
    /\ isSupportedFile(WkHead)
    /\ WkHead \notin wkFs.denied
    /\ wkScanned' = Append(wkScanned, WkHead)
    /\ wkStack' = WkAdvance
    /\ UNCHANGED <<wkFs, wkPc, wkWarned, wkErr, wkExit>>
    /\ WkOnly

\* scanFile returns the error of os.Open: a warning at most, the callback
\* returns nil
WkFileScanFailed ==
    /\ WkVisiting
    /\ WkHead \notin wkFs.lstatFails
    /\ WkHead \notin WkDirs
    /\ isSupportedFile(WkHead)
    /\ WkHead \in wkFs.denied
    /\ wkWarned' = Append(wkWarned, WkHead)
    /\ wkStack' = WkAdvance
    /\ UNCHANGED <<wkFs, wkPc, wkScanned, wkErr, wkExit>>
    /\ WkOnly

\* the entries of a directory are exhausted
WkLeaveDir ==
    /\ wkPc = "walk"
    /\ Len(wkStack) > 1
    /\ wkStack[Len(wkStack)] = <<>>
    /\ wkStack' = SubSeq(wkStack, 1, Len(wkStack) - 1)
    /\ UNCHANGED <<wkFs, wkPc, wkScanned, wkWarned, wkErr, wkExit>>
    /\ WkOnly

\* Walk returns nil
WkReturn ==
    /\ wkPc = "walk"
    /\ wkStack = << <<>> >>
    /\ wkPc' = "main"
    /\ UNCHANGED <<wkFs, wkStack, wkScanned, wkWarned, wkErr, wkExit>>
    /\ WkOnly

\* main: scanPath returned an error
MainExitError ==
    /\ wkPc = "main"
    /\ wkErr # <<>>
    /\ wkExit' = 1
    /\ wkPc' = "exit"
    /\ UNCHANGED <<wkFs, wkStack, wkScanned, wkWarned, wkErr>>
    /\ WkOnly

\* main: scanPath returned nil
MainExitOk ==
    /\ wkPc = "main"
    /\ wkErr = <<>>
    /\ wkExit' = 0
    /\ wkPc' = "exit"
    /\ UNCHANGED <<wkFs, wkStack, wkScanned, wkWarned, wkErr>>
    /\ WkOnly

WkNext ==
    \/ WkLstatFails \/ WkReadDirFails \/ WkSkipDir \/ WkEnterDir
    \/ WkFileUnsupported \/ WkFileScanned \/ WkFileScanFailed
    \/ WkLeaveDir \/ WkReturn \/ MainExitError \/ MainExitOk

\* at most one path whose Lstat fails
WkLstatFailures == {{}} \cup {{f} : f \in WkDirs \cup WkFiles}

WkTrees ==
    [root : {WkProj, WkFileA},
     lstatFails : WkLstatFailures,
     unreadable : SUBSET WkDirs,
     denied : SUBSET {WkFileA, WkFileB}]

WkInit ==
    /\ wkFs \in WkTrees
    /\ wkStack = << <<wkFs.root>> >>
    /\ wkPc = "walk"
    /\ wkScanned = <<>>
    /\ wkWarned = <<>>
    /\ wkErr = <<>>
    /\ wkExit = -1
    /\ FhdIdle /\ PiIdle /\ ExIdle /\ RsIdle /\ ScIdle

SpecWalk == WkInit /\ [][WkNext]_vars

\* the root is missing or cannot be read
RootFails ==
    wkFs.root \in wkFs.lstatFails \/ wkFs.root \in wkFs.unreadable

\* the paths of the tree below the root, the root included
WkBelowRoot ==
    {f \in WkDirs \cup WkFiles : f = wkFs.root \/ HasPrefix(f, wkFs.root \o Slash)}

\* no failure and no skipped name on the way from the root to the path
RECURSIVE WkClearWay(_)
WkClearWay(path) ==
    \/ path = wkFs.root
    \/ /\ Dir(path) \in WkBelowRoot
       /\ Dir(path) \notin wkFs.lstatFails \cup wkFs.unreadable
       /\ Base(Dir(path)) \notin SkipNames
       /\ WkClearWay(Dir(path))

\* the supported files that have no failure of their own and none above
WkHealthyFiles ==
    {f \in WkBelowRoot \cap WkFiles :
        /\ isSupportedFile(f)
        /\ f \notin wkFs.lstatFails \cup wkFs.denied
        /\ WkClearWay(f)}

\* C5: scanPath returns an error, and the process exits with 1, only when
\* the root is missing or inaccessible; a failure on a file or on a
\* directory below the root does not end the scan, every other file is
\* still processed.
C5_OnlyRootFatal ==
    /\ wkExit = 1 => RootFails
    /\ (wkPc = "exit" /\ ~RootFails) =>
          WkHealthyFiles \subseteq Range(wkScanned)

-----------------------------------------------------------------------------
(* Import statements as the language reads them                            *)

\* the positions at which an identifier begins
IdentStarts(s) ==
    {i \in 1..Len(s) : IsIdent(s[i]) /\ (i = 1 \/ ~IsIdent(s[i - 1]))}

WordAt(s, i) == SubSeq(s, i, SkipIdent(s, i) - 1)

\* the last character before position i that is not white space
RECURSIVE CharBefore(_, _)
CharBefore(s, i) ==
    IF i <= 1 THEN ""
    ELSE IF IsSpace(s[i - 1]) THEN CharBefore(s, i - 1)
    ELSE s[i - 1]

\* the first character from position j on that is not white space
CharAfter(s, j) ==
    LET k == SkipSpaces(s, j) IN IF k > Len(s) THEN "" ELSE s[k]

\* the entries `Original as Alias` of a brace list, as <<Original, Alias>>
Renames(s) ==
    {<<WordAt(s, p[1]), WordAt(s, p[2])>> :
        p \in {q \in IdentStarts(s) \X IdentStarts(s) :
                  LET e == SkipIdent(s, q[1])
                      a == SkipSpaces(s, e)
                  IN  /\ CharBefore(s, q[1]) \in {"{", ","}
                      /\ a > e
                      /\ MatchAt(s, a, kAs)
                      /\ q[2] > a + 2
                      /\ q[2] = SkipSpaces(s, a + 2)
                      /\ CharAfter(s, SkipIdent(s, q[2])) \in {",", "}"}}}

\* the entries of a brace list that are a single identifier
PlainEntries(s) ==
    {WordAt(s, i) :
        i \in {j \in IdentStarts(s) :
                  /\ CharBefore(s, j) \in {"{", ","}
                  /\ CharAfter(s, SkipIdent(s, j)) \in {",", "}"}}}

\* the identifier that follows `import` and is followed by `,` or `from`
DefaultNames(s) ==
    {WordAt(s, i) :
        i \in {j \in IdentStarts(s) :
                  /\ MatchAt(s, 1, kImport)
                  /\ j > 7
                  /\ j = SkipSpaces(s, 7)
                  /\ \/ CharAfter(s, SkipIdent(s, j)) = ","
                     \/ MatchAt(s, SkipSpaces(s, SkipIdent(s, j)), kFrom)}}

\* the identifiers a statement binds in the importing file, the namespace
\* name aside
LocallyBound(s) ==
    PlainEntries(s) \cup DefaultNames(s) \cup {r[2] : r \in Renames(s)}

\* `* as X` occurs in the statement
HasNamespaceBinding(s) ==
    \E i \in 1..Len(s) :
        LET a == SkipSpaces(s, i + 1)
            n == SkipSpaces(s, a + 2)
        IN  /\ s[i] = "*"
            /\ a > i + 1
            /\ MatchAt(s, a, kAs)
            /\ n > a + 2
            /\ SkipIdent(s, n) > n

IsRecorded(call) == call.info.ok

\* the statements behind scImports, in order
RecordedCalls == SelectSeq(scCalls, IsRecorded)

\* the lines the usage matcher is done with
MatchedLines == IF scPc = "report" THEN scLine - 1 ELSE Len(scLines)

ReportedNumbers == {output[i].lineNumber : i \in 1..Len(output)}

\* C2: of a named entry `Original as Alias` the record keeps Alias and
\* not Original; when the import is marked a line with the tag <Alias> is
\* reported, and Original is a marked name only where a marked import
\* binds it locally, so a line whose only tag is <Original> is reported in
\* that case alone.
C2_LocalAlias ==
    /\ \A c \in 1..Len(scCalls) :
          scCalls[c].info.ok =>
              \A r \in Renames(scCalls[c].stmt) :
                  /\ r[2] \in Range(scCalls[c].info.Specifiers)
                  /\ r[1] \in Range(scCalls[c].info.Specifiers) =>
                        r[1] \in LocallyBound(scCalls[c].stmt)
    /\ (scPc \in {"report", "done"} /\ ~scErr) =>
          /\ \A i \in 1..Len(scLog) :
                \A r \in Renames(RecordedCalls[i].stmt) :
                    /\ scLog[i].marked =>
                          /\ r[2] \in clientComponents
                          /\ \A k \in 1..MatchedLines :
                                containsJSXTag(scLines[k], r[2]) =>
                                    k \in ReportedNumbers
                    /\ r[1] \in clientComponents =>
                          \E j \in 1..Len(scLog) :
                              /\ scLog[j].marked
                              /\ r[1] \in LocallyBound(RecordedCalls[j].stmt)
          /\ \A k \in ReportedNumbers :
                \E c \in clientComponents : containsJSXTag(scLines[k], c)

\* a marked import with a renamed entry, a reported line with the tag of
\* the alias and an unreported line with the tag of the original name
C2_Witness ==
    /\ scPc = "done"
    /\ \E i \in 1..Len(scLog) :
          /\ scLog[i].marked
          /\ \E r \in Renames(RecordedCalls[i].stmt) :
                /\ \E k \in ReportedNumbers : containsJSXTag(scLines[k], r[2])
                /\ \E k \in 1..Len(scLines) :
                      /\ containsJSXTag(scLines[k], r[1])
                      /\ k \notin ReportedNumbers

\* a type-only import, or a statement with a namespace binding
Untracked(stmt) == IsTypeOnlyImport(stmt) \/ HasNamespaceBinding(stmt)

\* C3: a statement that is a type-only import or that contains a
\* namespace binding `* as X` adds nothing to the marked names: every
\* marked name is a bound name of a statement of another form.
C3_UntrackedNeverMark ==
    clientComponents \subseteq
        UNION {Range(scCalls[c].info.Specifiers) :
                  c \in {d \in 1..Len(scCalls) : ~Untracked(scCalls[d].stmt)}}

-----------------------------------------------------------------------------
(* Comments as the language reads them, character by character             *)

RECURSIVE LexLine(_, _, _)
LexLine(s, i, inBlock) ==
    IF i > Len(s) THEN [code |-> FALSE, inBlock |-> inBlock]
    ELSE LET two == IF i < Len(s) THEN <<s[i], s[i + 1]>> ELSE <<s[i]>>
         IN  IF inBlock
             THEN IF two = <<"*","/">> THEN LexLine(s, i + 2, FALSE)
                  ELSE LexLine(s, i + 1, TRUE)
             ELSE IF two = <<"/","/">> THEN [code |-> FALSE, inBlock |-> FALSE]
             ELSE IF two = <<"/","*">> THEN LexLine(s, i + 2, TRUE)
             ELSE IF IsSpace(s[i]) THEN LexLine(s, i + 1, FALSE)
             ELSE [code |-> TRUE, inBlock |-> LexLine(s, i + 1, FALSE).inBlock]

RECURSIVE InBlockBefore(_, _)
InBlockBefore(lines, k) ==
    IF k = 1 THEN FALSE
    ELSE LexLine(TrimSpace(lines[k - 1]), 1, InBlockBefore(lines, k - 1)).inBlock

\* line k carries statement text outside comments
LineHasCode(lines, k) ==
    LexLine(TrimSpace(lines[k]), 1, InBlockBefore(lines, k)).code

\* the first text of line k is statement text outside comments
LineBeginsWithCode(lines, k) ==
    LET t == TrimSpace(lines[k])
    IN  /\ ~InBlockBefore(lines, k)
        /\ t # <<>>
        /\ ~HasPrefix(t, <<"/","/">>)
        /\ ~HasPrefix(t, <<"/","*">>)

\* C1 as stated: fileHasDirective returns true only if no line before the
\* directive line carries statement text, also not after a comment on the
\* same line.
C1_PrologueOnly ==
    fhdRet = "true" => \A k \in 1..(fhdPos - 1) : ~LineHasCode(fhdLines, k)

\* C1 amended: fileHasDirective returns true only if no line before the
\* directive line begins with statement text: each is blank, inside a block
\* comment, or begins with a comment.
C1_PrologueLineStart ==
    fhdRet = "true" =>
        \A k \in 1..(fhdPos - 1) : ~LineBeginsWithCode(fhdLines, k)

\* the directive is found after a line that begins with a comment and goes
\* on with statement text
C1_Witness ==
    /\ fhdRet = "true"
    /\ \E k \in 1..(fhdPos - 1) :
          LineHasCode(fhdLines, k) /\ ~LineBeginsWithCode(fhdLines, k)

====
